---------------------------- MODULE Spec2Model ----------------------------
(***************************************************************************)
(* cfd-status: a monitor that polls the log files of running CFD cases.    *)
(*                                                                         *)
(*   src/src/lib.rs   ElapsedPerStep (running mean), Case (update,         *)
(*                    eta_secs, Display), CaseError                        *)
(*   src/src/main.rs  the polling loop                                     *)
(*                                                                         *)
(* Three specifications share the definitions below:                       *)
(*   SpecAvg   ElapsedPerStep alone, fed a bounded list of samples         *)
(*   SpecCase  one Case driven by update() and eta_secs() calls            *)
(*   Spec      main(): the polling loop over the list of cases             *)
(*                                                                         *)
(* Abstractions.  f64 values are exact rationals [num, den] (rounding of   *)
(* the binary format is not modelled).  usize is a machine word of         *)
(* UsizeBits bits instead of 64: arithmetic that leaves the word either    *)
(* panics (a build with overflow checks, cargo's dev profile) or wraps     *)
(* (a build without, cargo's release profile); the profile is fixed when   *)
(* the process starts.  Text is a sequence of one-character strings.       *)
(***************************************************************************)
EXTENDS Integers, Sequences, FiniteSets, TLC

\* ------------------------------------------------------------------ bounds
UsizeBits == 6          \* width of the modelled usize word
MaxSamples == 3         \* SpecAvg: longest list of samples
MaxNum == 3             \* SpecAvg: samples are p/q, p in 1..MaxNum
MaxDen == 2             \*                           q in 1..MaxDen
MaxStep == 5            \* largest step number written to a modelled log
MaxDuration == 1        \* SpecCase: durations 0..MaxDuration
MaxCalls == 4           \* SpecCase: update() calls per behaviour
MaxCycles == 3          \* Spec: polling cycles per behaviour

\* ------------------------------------------------------- program constants
UPDATE_TIME == 180
RATE == 20

\* --------------------------------------------------------------- variables
VARIABLES
    samples,            \* SpecAvg: the samples to feed
    fed,                \* SpecAvg: indices of samples already fed, in order
    avg,                \* SpecAvg: the ElapsedPerStep under test
    overflow_checks,    \* build profile: TRUE = arithmetic overflow panics
    cases,              \* the Case objects (SpecCase: one; Spec: main's list)
    last,               \* the last call: what was called, its input, its result
    larger,             \* per case: successful updates that saw a larger step
    calls,              \* SpecCase: update() calls made so far
    pc,                 \* Spec: position of main()
    idx,                \* Spec: index of the next case of the iterator
    status,             \* Spec: status lines collected in this cycle
    cycle,              \* Spec: cycles started
    log                 \* Spec: observable events of the process, in order

vars == <<samples, fed, avg, overflow_checks, cases, last, larger, calls,
          pc, idx, status, cycle, log>>

\* Option<T>: None is the empty sequence, Some(x) the sequence of x alone
None == <<>>

Some(x) == <<x>>

Unwrap(o) == o[1]

\* ------------------------------------------------------------ f64 as exact
\* rationals, kept in lowest terms with a positive denominator
RECURSIVE GCD(_, _)
GCD(a, b) == IF b = 0 THEN a ELSE GCD(b, a % b)

Abs(x) == IF x < 0 THEN -x ELSE x

Rat(n, d) ==
    LET g == GCD(Abs(n), d)
    IN  [num |-> n \div g, den |-> d \div g]

F64FromInt(n) == [num |-> n, den |-> 1]

F64Zero == F64FromInt(0)

F64Add(x, y) == Rat(x.num * y.den + y.num * x.den, x.den * y.den)

F64Mul(x, y) ==
    LET a == Rat(x.num, y.den)
        b == Rat(y.num, x.den)
    IN  Rat(a.num * b.num, a.den * b.den)

\* y is never zero where the program divides
F64Div(x, y) ==
    IF y.num > 0 THEN F64Mul(x, [num |-> y.den, den |-> y.num])
    ELSE F64Mul(x, [num |-> -y.den, den |-> -y.num])

\* `x as i64`: truncation toward zero (no modelled value leaves the i64 range)
F64AsI64(x) ==
    IF x.num >= 0 THEN x.num \div x.den ELSE -((-x.num) \div x.den)

\* round half away from zero, what f64::round computes
F64Round(x) ==
    IF x.num >= 0 THEN (2 * x.num + x.den) \div (2 * x.den)
    ELSE -((2 * (-x.num) + x.den) \div (2 * x.den))

\* ------------------------------------------------------------------ usize
UsizeModulus == 2 ^ UsizeBits

\* a - b and a * b in usize: whether the exact result leaves the word, and the
\* wrapped result
UsizeSub(a, b) ==
    [overflow |-> a < b, value |-> (a - b + UsizeModulus) % UsizeModulus]

UsizeMul(a, b) ==
    [overflow |-> a * b >= UsizeModulus, value |-> (a * b) % UsizeModulus]

\* --------------------------------------------------------- ElapsedPerStep
ElapsedPerStep_new == [value |-> F64Zero, sample |-> 0]

\* a faulty variant: the old mean weighted by the incremented count
ElapsedPerStep_update_weight_after(e, value) ==
    LET sample == e.sample + 1
    IN  [value  |-> F64Div(F64Add(F64Mul(e.value, F64FromInt(sample)), value),
                           F64FromInt(sample)),
         sample |-> sample]

ElapsedPerStep_update(e, value) ==
    LET n      == F64FromInt(e.sample)
        sample == e.sample + 1
    IN  [value  |-> F64Div(F64Add(F64Mul(e.value, n), value),
                           F64FromInt(sample)),
         sample |-> sample]

\* &ElapsedPerStep * f64
ElapsedPerStep_mul(e, rhs) == F64Mul(e.value, rhs)


\* ------------------------------------------------------------------- text
\* Text is a sequence of one-character strings.  "U+0663" stands for the one
\* character ARABIC-INDIC DIGIT THREE, a decimal digit outside ASCII, and
\* "0xFF" for a byte that is not valid UTF-8.
AsciiDigits == <<"0", "1", "2", "3", "4", "5", "6", "7", "8", "9">>

IsAsciiDigit(c) == \E i \in 1..10 : AsciiDigits[i] = c

DigitValue(c) == (CHOOSE i \in 1..10 : AsciiDigits[i] = c) - 1

\* the regex crate's \d is Unicode-aware: any decimal digit (\p{Nd})
IsDigit(c) == IsAsciiDigit(c) \/ c = "U+0663"

\* \s
IsSpace(c) == c \in {" ", "\t", "\n"}

TimeStepWord == <<"T", "i", "m", "e", "S", "t", "e", "p">>

ColonTime == <<":", " ", "T", "i", "m", "e">>

\* whether text s holds the literal lit at position i
LiteralAt(s, i, lit) ==
    /\ i >= 1
    /\ i + Len(lit) - 1 <= Len(s)
    /\ SubSeq(s, i, i + Len(lit) - 1) = lit

\* the position after the longest run of digits (of spaces) that starts at i
RECURSIVE SkipDigits(_, _)
SkipDigits(s, i) ==
    IF i >= 1 /\ i <= Len(s) /\ IsDigit(s[i]) THEN SkipDigits(s, i + 1) ELSE i

RECURSIVE SkipSpaces(_, _)
SkipSpaces(s, i) ==
    IF i >= 1 /\ i <= Len(s) /\ IsSpace(s[i]) THEN SkipSpaces(s, i + 1) ELSE i

\* TimeStep\s+(\d+): Time\s+(\d+\.\d+e[+-]?\d+) matched at position i.  Every
\* repetition is followed by a character outside its class, so the greedy run
\* is the only way to match.
MatchAt(s, i) ==
    LET p1  == i + Len(TimeStepWord)
        p2  == SkipSpaces(s, p1)
        p3  == SkipDigits(s, p2)
        p4  == p3 + Len(ColonTime)
        p5  == SkipSpaces(s, p4)
        p6  == SkipDigits(s, p5)
        p7  == p6 + 1
        p8  == SkipDigits(s, p7)
        p9  == p8 + 1
        p10 == IF p9 <= Len(s) /\ s[p9] \in {"+", "-"} THEN p9 + 1 ELSE p9
        p11 == SkipDigits(s, p10)
    IN  IF /\ LiteralAt(s, i, TimeStepWord)
           /\ p2 > p1
           /\ p3 > p2
           /\ LiteralAt(s, p3, ColonTime)
           /\ p5 > p4
           /\ p6 > p5
           /\ LiteralAt(s, p6, <<".">>)
           /\ p8 > p7
           /\ LiteralAt(s, p8, <<"e">>)
           /\ p11 > p10
        THEN [matched |-> TRUE,
              g1 |-> SubSeq(s, p2, p3 - 1),
              g2 |-> SubSeq(s, p5, p11 - 1)]
        ELSE [matched |-> FALSE, g1 |-> <<>>, g2 |-> <<>>]

\* pattern.captures(&time_step): the leftmost match
Captures(s) ==
    LET starts == {i \in 1..Len(s) : MatchAt(s, i).matched}
    IN  IF starts = {} THEN [matched |-> FALSE, g1 |-> <<>>, g2 |-> <<>>]
        ELSE MatchAt(s, CHOOSE i \in starts : \A j \in starts : i <= j)

RECURSIVE DigitsValue(_)
DigitsValue(txt) ==
    IF txt = <<>> THEN 0
    ELSE 10 * DigitsValue(SubSeq(txt, 1, Len(txt) - 1)) + DigitValue(txt[Len(txt)])

\* str::parse::<usize>: ASCII digits only, and the value must fit the word
ParseUsize(txt) ==
    IF txt = <<>> \/ \E i \in 1..Len(txt) : ~IsAsciiDigit(txt[i])
    THEN [ok |-> FALSE, value |-> 0]
    ELSE LET v == DigitsValue(txt)
         IN  IF v >= UsizeModulus THEN [ok |-> FALSE, value |-> 0]
             ELSE [ok |-> TRUE, value |-> v]

\* str::parse::<f64> of a text of the shape digits.digits e [+-]? digits (the
\* shape of the second capture group): ASCII digits only; no such text is out
\* of range for f64 (a huge exponent parses to infinity, not to an error)
ParseF64(txt) ==
    IF \E i \in 1..Len(txt) : IsDigit(txt[i]) /\ ~IsAsciiDigit(txt[i])
    THEN [ok |-> FALSE, value |-> F64Zero]
    ELSE LET dot  == CHOOSE i \in 1..Len(txt) : txt[i] = "."
             e    == CHOOSE i \in 1..Len(txt) : txt[i] = "e"
             sign == e + 1 <= Len(txt) /\ txt[e + 1] \in {"+", "-"}
             neg  == sign /\ txt[e + 1] = "-"
             int  == SubSeq(txt, 1, dot - 1)
             frac == SubSeq(txt, dot + 1, e - 1)
             ex   == DigitsValue(SubSeq(txt, IF sign THEN e + 2 ELSE e + 1, Len(txt)))
             mant == Rat(DigitsValue(int \o frac), 10 ^ Len(frac))
         IN  [ok |-> TRUE,
              value |-> IF neg THEN F64Div(mant, F64FromInt(10 ^ ex))
                        ELSE F64Mul(mant, F64FromInt(10 ^ ex))]

\* whether text s contains the word
Contains(s, word) == \E i \in 1..Len(s) : LiteralAt(s, i, word)

\* ------------------------------------------------- grep TimeStep f | tail -n1
\* A file is [readable, lines]: absent or unreadable, or a sequence of lines.
\* grep: exit status 2 on a file it cannot read, 1 when no line is selected,
\* 0 otherwise; stdout holds the selected lines.
GrepStdout(file) ==
    IF ~file.readable THEN <<>>
    ELSE SelectSeq(file.lines, LAMBDA line : Contains(line, TimeStepWord))

GrepExit(file) ==
    IF ~file.readable THEN 2 ELSE IF GrepStdout(file) = <<>> THEN 1 ELSE 0

\* tail -n1 of grep's stdout: its last line with the line's newline, or nothing
TailStdout(lines) ==
    IF lines = <<>> THEN <<>> ELSE lines[Len(lines)] \o <<"\n">>

\* String::from_utf8
FromUtf8Ok(bytes) == \A i \in 1..Len(bytes) : bytes[i] # "0xFF"


\* ------------------------------------------------------------------- Case
Case_new(name, duration, logname) ==
    [name |-> name, duration |-> duration, log |-> logname,
     step |-> None, time |-> F64Zero, elapsed_per_step |-> ElapsedPerStep_new]

\* What one update() call meets outside the process: whether grep and tail
\* can be spawned, whether waiting for tail succeeds, tail's exit status, and
\* the file at log_file().
Env(spawn_grep, spawn_tail, wait, tail_success, file) ==
    [spawn_grep |-> spawn_grep, spawn_tail |-> spawn_tail, wait |-> wait,
     tail_success |-> tail_success, file |-> file]

\* output.stdout of the pipeline
PipeStdout(env) == TailStdout(GrepStdout(env.file))

\* a faulty variant: the first observation is measured from step 0
diff_step_from_zero(c, time_step) ==
    UsizeSub(time_step, IF c.step = None THEN 0 ELSE Unwrap(c.step))

\* time_step - self.step.unwrap_or_else(|| time_step)
diff_step(c, time_step) ==
    UsizeSub(time_step, IF c.step = None THEN time_step ELSE Unwrap(c.step))

\* the assignments of update(), lines 134-139
Store(c, time_step, time_value, diff) ==
    [c EXCEPT !.step = Some(time_step),
              !.time = time_value,
              !.elapsed_per_step =
                  IF diff > 0
                  THEN ElapsedPerStep_update(@, F64Div(F64FromInt(UPDATE_TIME),
                                                       F64FromInt(diff)))
                  ELSE @]

Err(c, e) == [result |-> e, case |-> c]

\* a faulty variant: the step is stored as soon as it is parsed, before the time is
Update_store_early(c, env, checks) ==
    IF ~env.spawn_grep \/ ~env.spawn_tail \/ ~env.wait THEN Err(c, "Command")
    ELSE IF ~env.tail_success THEN Err(c, "Grep")
    ELSE IF ~FromUtf8Ok(PipeStdout(env)) THEN Err(c, "UTF8")
    ELSE LET captures == Captures(PipeStdout(env))
             time_step == ParseUsize(captures.g1)
             time_value == ParseF64(captures.g2)
             diff == diff_step(c, time_step.value)
         IN  IF ~captures.matched THEN Err(c, "Regex")
             ELSE IF ~time_step.ok THEN Err(c, "ParseInt")
             ELSE IF ~time_value.ok
                  THEN Err([c EXCEPT !.step = Some(time_step.value)], "ParseFloat")
             ELSE IF diff.overflow /\ checks THEN Err(c, "panic")
             ELSE [result |-> "Ok",
                   case |-> Store(c, time_step.value, time_value.value, diff.value)]

\* a faulty variant: a line that has the keyword but not the pattern is a parse error
Update_keyword_parse(c, env, checks) ==
    IF ~env.spawn_grep \/ ~env.spawn_tail \/ ~env.wait THEN Err(c, "Command")
    ELSE IF ~env.tail_success THEN Err(c, "Grep")
    ELSE IF ~FromUtf8Ok(PipeStdout(env)) THEN Err(c, "UTF8")
    ELSE LET captures == Captures(PipeStdout(env))
             time_step == ParseUsize(captures.g1)
             time_value == ParseF64(captures.g2)
             diff == diff_step(c, time_step.value)
         IN  IF ~captures.matched
             THEN Err(c, IF Contains(PipeStdout(env), TimeStepWord)
                         THEN "ParseFloat" ELSE "Regex")
             ELSE IF ~time_step.ok THEN Err(c, "ParseInt")
             ELSE IF ~time_value.ok THEN Err(c, "ParseFloat")
             ELSE IF diff.overflow /\ checks THEN Err(c, "panic")
             ELSE [result |-> "Ok",
                   case |-> Store(c, time_step.value, time_value.value, diff.value)]

\* Case::update: its result ("Ok", a CaseError, or "panic") and the case after
\* it.  `checks` is the build's overflow checking.
Update(c, env, checks) ==
    IF ~env.spawn_grep THEN Err(c, "Command")
    ELSE IF ~env.spawn_tail THEN Err(c, "Command")
    ELSE IF ~env.wait THEN Err(c, "Command")
    ELSE IF ~env.tail_success THEN Err(c, "Grep")
    ELSE IF ~FromUtf8Ok(PipeStdout(env)) THEN Err(c, "UTF8")
    ELSE LET captures == Captures(PipeStdout(env))
             time_step == ParseUsize(captures.g1)
             time_value == ParseF64(captures.g2)
             diff == diff_step(c, time_step.value)
         IN  IF ~captures.matched THEN Err(c, "Regex")
             ELSE IF ~time_step.ok THEN Err(c, "ParseInt")
             ELSE IF ~time_value.ok THEN Err(c, "ParseFloat")
             ELSE IF diff.overflow /\ checks THEN Err(c, "panic")
             ELSE [result |-> "Ok",
                   case |-> Store(c, time_step.value, time_value.value, diff.value)]

\* a faulty variant: the product rounded to the nearest integer
cast_rounding(x) == F64Round(x)

\* the cast of eta_secs, line 152
cast(x) == F64AsI64(x)

\* Case::eta_secs: whether it panics, and the value it returns otherwise
eta_secs(c, checks) ==
    LET total  == UsizeMul(c.duration, RATE)
        n_step == UsizeSub(total.value, Unwrap(c.step))
    IN  IF c.step = None THEN [panic |-> TRUE, value |-> 0]
        ELSE IF checks /\ (total.overflow \/ n_step.overflow)
             THEN [panic |-> TRUE, value |-> 0]
        ELSE [panic |-> FALSE,
              value |-> cast(ElapsedPerStep_mul(c.elapsed_per_step,
                                                F64FromInt(n_step.value)))]

\* Display for Case: the fields of the status line (the ETA as seconds from
\* the moment of formatting; the clock and the widths of the columns are not
\* modelled), or a panic of eta_secs
to_string(c, checks) ==
    LET eta == eta_secs(c, checks)
    IN  IF eta.panic THEN [panic |-> TRUE, line |-> <<>>]
        ELSE [panic |-> FALSE,
              line |-> <<c.name, Unwrap(c.step), c.time,
                         c.elapsed_per_step.value, eta.value>>]


\* ----------------------------------------------------------------- inputs
RECURSIVE ToDigits(_)
ToDigits(n) ==
    IF n < 10 THEN <<AsciiDigits[n + 1]>>
    ELSE ToDigits(n \div 10) \o <<AsciiDigits[(n % 10) + 1]>>

Blanks == <<" ", " ", " ">>

\* a log line as the solver writes it: the step, and the simulated time
\* step / RATE seconds
LogLine(step) ==
    TimeStepWord \o Blanks \o ToDigits(step) \o ColonTime \o Blanks
        \o ToDigits(5 * step) \o <<".", "0", "e", "-", "0", "2">>

\* TimeStep   42: Time   1.2345e+02
ExampleLine ==
    TimeStepWord \o Blanks \o <<"4", "2">> \o ColonTime \o Blanks
        \o <<"1", ".", "2", "3", "4", "5", "e", "+", "0", "2">>

\* TimeStep   42: Time   12.xe+02
MalformedNumberLine ==
    TimeStepWord \o Blanks \o <<"4", "2">> \o ColonTime \o Blanks
        \o <<"1", "2", ".", "x", "e", "+", "0", "2">>

\* TimeStep size
KeywordOnlyLine == TimeStepWord \o <<" ", "s", "i", "z", "e">>

\* a line without the keyword
OtherLine == <<"I", "t", "e", "r", " ", "7">>

\* a step number one past the largest usize
HugeStepLine ==
    TimeStepWord \o Blanks \o ToDigits(UsizeModulus) \o ColonTime \o Blanks
        \o <<"1", ".", "0", "e", "0">>

\* decimal digits outside ASCII in the step, in the time
ForeignStepLine ==
    TimeStepWord \o Blanks \o <<"U+0663">> \o ColonTime \o Blanks
        \o <<"1", ".", "0", "e", "0">>

ForeignTimeLine ==
    TimeStepWord \o Blanks \o <<"3">> \o ColonTime \o Blanks
        \o <<"U+0663", ".", "0", "e", "0">>

\* a line holding a byte that is not UTF-8
BinaryLine == LogLine(1) \o <<"0xFF">>

BadLines ==
    {MalformedNumberLine, KeywordOnlyLine, OtherLine, HugeStepLine,
     ForeignStepLine, ForeignTimeLine, BinaryLine}

File(lines) == [readable |-> TRUE, lines |-> lines]

MissingFile == [readable |-> FALSE, lines |-> <<>>]

Files ==
    {File(<<LogLine(s)>>) : s \in 0..MaxStep}
        \cup {File(<<l>>) : l \in BadLines}
        \cup {File(<<>>), MissingFile,
              File(<<LogLine(1), OtherLine, LogLine(2), OtherLine>>)}

Envs ==
    {Env(TRUE, TRUE, TRUE, TRUE, f) : f \in Files}
        \cup {Env(FALSE, TRUE, TRUE, TRUE, File(<<LogLine(1)>>)),
              Env(TRUE, FALSE, TRUE, TRUE, File(<<LogLine(1)>>)),
              Env(TRUE, TRUE, FALSE, TRUE, File(<<LogLine(1)>>)),
              Env(TRUE, TRUE, TRUE, FALSE, File(<<LogLine(1)>>))}

NoEnv == Env(TRUE, TRUE, TRUE, TRUE, MissingFile)

\* `last` before any call; `before` is the case as it was when the call began
NoCall ==
    [op |-> "none", case |-> 0, env |-> NoEnv, result |-> "Ok", value |-> 0,
     before |-> Case_new("", 0, "")]

\* ------------------------------------------------------ SpecAvg: the mean
SampleValues == {Rat(p, q) : p \in 1..MaxNum, q \in 1..MaxDen}

SampleLists == UNION {[1..n -> SampleValues] : n \in 1..MaxSamples}

InitAvg ==
    /\ samples \in SampleLists
    /\ fed = <<>>
    /\ avg = ElapsedPerStep_new
    /\ overflow_checks = FALSE
    /\ cases = <<>>
    /\ last = NoCall
    /\ larger = <<>>
    /\ calls = 0
    /\ pc = "avg"
    /\ idx = 0
    /\ status = <<>>
    /\ cycle = 0
    /\ log = <<>>

\* update() with one of the samples not fed yet, in any order
FeedSample ==
    /\ pc = "avg"
    /\ \E i \in DOMAIN samples :
          /\ \A k \in DOMAIN fed : fed[k] # i
          /\ avg' = ElapsedPerStep_update(avg, samples[i])
          /\ fed' = Append(fed, i)
    /\ UNCHANGED <<samples, overflow_checks, cases, last, larger, calls, pc,
                   idx, status, cycle, log>>

NextAvg == FeedSample

SpecAvg == InitAvg /\ [][NextAvg]_vars

\* -------------------------------------------------- SpecCase: one Case
InitCase ==
    /\ samples = <<>>
    /\ fed = <<>>
    /\ avg = ElapsedPerStep_new
    /\ overflow_checks \in BOOLEAN
    /\ \E d \in 0..MaxDuration : cases = <<Case_new("case", d, "solve.out")>>
    /\ last = NoCall
    /\ larger = <<0>>
    /\ calls = 0
    /\ pc = "case"
    /\ idx = 0
    /\ status = <<>>
    /\ cycle = 0
    /\ log = <<>>

\* whether an update of case c under env stores a step larger than the stored
\* one (the counter `larger` is kept beside the program, not by it)
SawLargerStep(c, env, r) ==
    /\ r.result = "Ok"
    /\ c.step # None
    /\ Unwrap(r.case.step) > Unwrap(c.step)

CallUpdate ==
    /\ pc = "case"
    /\ last.result # "panic"
    /\ calls < MaxCalls
    /\ \E env \in Envs :
       \E r \in {Update(cases[1], env, overflow_checks)} :
          /\ cases' = <<r.case>>
          /\ last' = [op |-> "update", case |-> 1, env |-> env,
                      result |-> r.result, value |-> 0, before |-> cases[1]]
          /\ larger' = IF SawLargerStep(cases[1], env, r)
                       THEN <<larger[1] + 1>> ELSE larger
    /\ calls' = calls + 1
    /\ UNCHANGED <<samples, fed, avg, overflow_checks, pc, idx, status, cycle,
                   log>>

CallEtaSecs ==
    /\ pc = "case"
    /\ last.result # "panic"
    /\ last.op # "eta_secs"
    /\ \E r \in {eta_secs(cases[1], overflow_checks)} :
          last' = [op |-> "eta_secs", case |-> 1, env |-> NoEnv,
                   result |-> IF r.panic THEN "panic" ELSE "Ok",
                   value |-> r.value, before |-> cases[1]]
    /\ UNCHANGED <<samples, fed, avg, overflow_checks, cases, larger, calls,
                   pc, idx, status, cycle, log>>

NextCase == CallUpdate \/ CallEtaSecs

SpecCase == InitCase /\ [][NextCase]_vars


\* ------------------------------------------------------ Spec: main()
\* main's list of cases, shortened to two, with durations that fit the
\* modelled word (1200 and 900 in the source)
MainCases ==
    <<Case_new("zen30az045_OS2", 1, "solve-672_14.out"),
      Case_new("zen30az090_OS2", 1, "solve-672_16.out")>>

\* what the polled logs hold: three good observations (the last one past the
\* target of RATE steps), or no file
MainEnvs ==
    {Env(TRUE, TRUE, TRUE, TRUE, f) :
        f \in {File(<<LogLine(1)>>), File(<<LogLine(2)>>),
               File(<<LogLine(RATE + 1)>>), MissingFile}}

Event(ev, case, ok, lines) == [ev |-> ev, case |-> case, ok |-> ok, lines |-> lines]

Init ==
    /\ samples = <<>>
    /\ fed = <<>>
    /\ avg = ElapsedPerStep_new
    /\ overflow_checks \in BOOLEAN
    /\ cases = MainCases
    /\ last = NoCall
    /\ larger = [i \in DOMAIN MainCases |-> 0]
    /\ calls = 0
    /\ pc = "collect"
    /\ idx = 1
    /\ status = <<>>
    /\ cycle = 1
    /\ log = <<>>

\* the position of main() after the iterator's step for case idx returned Ok
AfterOk == IF idx = Len(cases) THEN "render" ELSE "collect"

\* a faulty variant: the failing case is skipped and the cycle goes on
AfterErr_skip == AfterOk

\* the position of main() after the iterator's step for case idx returned Err:
\* collect() stops, the loop breaks with the error, main returns it
AfterErr == "exit_error"

\* a faulty variant: the iterator's next step takes the same case again
NextIndex_same == idx

\* the iterator's position after a step
NextIndex == idx + 1

\* One step of cases.iter_mut().map(|case| case.update().map(|case|
\* case.to_string())) inside collect(): update() of case idx, then, when it
\* returned Ok, the case's status line.
CollectStep ==
    /\ pc = "collect"
    /\ idx <= Len(cases)
    /\ \E env \in MainEnvs :
       \E r \in {Update(cases[idx], env, overflow_checks)} :
       \E s \in {to_string(r.case, overflow_checks)} :
       \E done \in {IF r.result = "panic" THEN "panic"
                    ELSE IF r.result # "Ok" THEN AfterErr
                    ELSE IF s.panic THEN "panic"
                    ELSE AfterOk} :
          /\ cases' = [cases EXCEPT ![idx] = r.case]
          /\ last' = [op |-> "update", case |-> idx, env |-> env,
                      result |-> r.result, value |-> 0, before |-> cases[idx]]
          /\ larger' = IF SawLargerStep(cases[idx], env, r)
                       THEN [larger EXCEPT ![idx] = @ + 1] ELSE larger
          /\ log' = Append(log, Event("refresh", idx, r.result = "Ok", <<>>))
          /\ status' = IF done \in {"render", "collect"}
                       THEN Append(status, s.line) ELSE status
          /\ pc' = done
          /\ idx' = IF done \in {"render", "collect"} THEN NextIndex ELSE idx
    /\ UNCHANGED <<samples, fed, avg, overflow_checks, calls, cycle>>

\* clear, the timestamp, the header, the status lines
Render ==
    /\ pc = "render"
    /\ log' = Append(log, Event("render", 0, TRUE, status))
    /\ pc' = "sleep"
    /\ UNCHANGED <<samples, fed, avg, overflow_checks, cases, last, larger,
                   calls, idx, status, cycle>>

\* sleep(UPDATE_TIME), then the loop's next iteration begins
Sleep ==
    /\ pc = "sleep"
    /\ cycle < MaxCycles
    /\ log' = Append(log, Event("sleep", 0, TRUE, <<>>))
    /\ pc' = "collect"
    /\ idx' = 1
    /\ status' = <<>>
    /\ cycle' = cycle + 1
    /\ UNCHANGED <<samples, fed, avg, overflow_checks, cases, last, larger,
                   calls>>

Next == CollectStep \/ Render \/ Sleep

Spec == Init /\ [][Next]_vars


\* ================================================================= claims
RECURSIVE SumList(_)
SumList(list) ==
    IF list = <<>> THEN F64Zero
    ELSE F64Add(SumList(SubSeq(list, 1, Len(list) - 1)), list[Len(list)])

\* (s_1 + ... + s_n) / n
Mean(list) == F64Div(SumList(list), F64FromInt(Len(list)))

\* the samples fed so far, in the order they were fed
FedSamples == [k \in DOMAIN fed |-> samples[fed[k]]]

\* C1.  After any non-empty sequence of positive samples fed one by one to a
\* fresh ElapsedPerStep, the value is the arithmetic mean of the samples fed
\* and the sample count is their number; once all samples of a list are fed,
\* in whatever order, the value is the mean of the list.
C1_MeanOfSamples ==
    fed # <<>> =>
        /\ avg.sample = Len(fed)
        /\ avg.value = Mean(FedSamples)
        /\ Len(fed) = Len(samples) => avg.value = Mean(samples)

\* three different samples, all fed, the last one first
C1_Witness ==
    /\ Len(samples) = 3
    /\ Len(fed) = 3
    /\ fed[1] = 3
    /\ Cardinality({samples[i] : i \in 1..3}) = 3

\* the last call was an update() of case i
Updated(i) == last.op = "update" /\ last.case = i

\* the latest observation in the log of the last update(): step and time of
\* the last line holding the keyword
ObservedStep == ParseUsize(Captures(PipeStdout(last.env)).g1).value

ObservedTime == ParseF64(Captures(PipeStdout(last.env)).g2).value

\* C2.  A case's step is None until the first successful update and, once
\* set, never decreases from one state to the next.
C2_StepNeverDecreases ==
    [][\A i \in DOMAIN cases :
          /\ cases[i].step = None /\ cases'[i].step # None
                => Updated(i)' /\ last'.result = "Ok"
          /\ cases[i].step # None
                => /\ cases'[i].step # None
                   /\ Unwrap(cases'[i].step) >= Unwrap(cases[i].step)]_vars

\* C3.  A successful update whose step delta is zero (the first success of a
\* fresh case, or an observation of the stored step) stores the observed step
\* and time and leaves the running average as it was; on a fresh case that is
\* the average of no samples.
C3_ZeroDeltaKeepsAverage ==
    \A i \in DOMAIN cases :
        (/\ Updated(i)
         /\ last.result = "Ok"
         /\ last.before.step = None \/ last.before.step = Some(ObservedStep))
        => /\ cases[i].step = Some(ObservedStep)
           /\ cases[i].time = ObservedTime
           /\ cases[i].elapsed_per_step = last.before.elapsed_per_step
           /\ last.before.step = None
                 => cases[i].elapsed_per_step = ElapsedPerStep_new

\* a case that has a sample sees its stored step again
C3_Witness ==
    /\ Updated(1)
    /\ last.result = "Ok"
    /\ last.before.step = cases[1].step
    /\ cases[1].elapsed_per_step.sample = 1

\* C4.  A successful update that observes a step larger than the stored one
\* folds the one sample UPDATE_TIME / (new - previous) into the average, and
\* the sample count is always the number of such updates.
C4_SampleCountCountsLargerSteps ==
    \A i \in DOMAIN cases :
        /\ (/\ Updated(i)
            /\ last.result = "Ok"
            /\ last.before.step # None
            /\ ObservedStep > Unwrap(last.before.step))
           => cases[i].elapsed_per_step =
                 ElapsedPerStep_update(
                     last.before.elapsed_per_step,
                     Rat(UPDATE_TIME, ObservedStep - Unwrap(last.before.step)))
        /\ cases[i].elapsed_per_step.sample = larger[i]

\* the events of the process after the k-th
NothingAfter(k) == k = Len(log)

\* C5.  When the update of a case fails in a cycle, the loop is over: the
\* failed update is the last thing the process did (no later case is updated,
\* no table is rendered, no cycle starts), no step of main() is left, and the
\* process ends with the error.
C5_FailureAbortsLoop ==
    /\ \A k \in DOMAIN log :
          log[k].ev = "refresh" /\ ~log[k].ok
             => /\ NothingAfter(k)
                /\ pc \in {"exit_error", "panic"}
                /\ ~ENABLED Next
    /\ pc = "exit_error" <=> last.result \notin {"Ok", "panic"}

\* the first case of the second cycle fails; the second case is left as the
\* first cycle left it
C5_Witness ==
    /\ pc = "exit_error"
    /\ cycle = 2
    /\ last.case = 1
    /\ last.result = "Regex"
    /\ Len(cases) > 1

\* what the claim calls a failure of the external read/filter step: a process
\* that cannot be spawned or waited for, tail exiting with failure, or grep
\* exiting with an error (status 2: the file cannot be read)
ExtractionFailed(env) ==
    \/ ~env.spawn_grep
    \/ ~env.spawn_tail
    \/ ~env.wait
    \/ ~env.tail_success
    \/ GrepExit(env.file) = 2

\* C6.  update() fails with CaseError::Grep or CaseError::Command whenever the
\* external read/filter step cannot be run or exits with failure, in
\* particular on a missing or unreadable log file; never with a pattern
\* mismatch.
C6_ExtractionFailureIsReported ==
    \A i \in DOMAIN cases :
        Updated(i) /\ ExtractionFailed(last.env)
            => last.result \in {"Grep", "Command"}

\* the exact product mean * n
Product(c, n) == F64Mul(c.elapsed_per_step.value, F64FromInt(n))

Extracted(env) ==
    /\ env.spawn_grep /\ env.spawn_tail /\ env.wait /\ env.tail_success
    /\ FromUtf8Ok(PipeStdout(env))

\* positions i..j-1 of s are one or more characters of the class
DigitRun(s, i, j) == i < j /\ \A k \in i..(j - 1) : IsDigit(s[k])

SpaceRun(s, i, j) == i < j /\ \A k \in i..(j - 1) : IsSpace(s[k])

\* Somewhere in s: TimeStep, spaces, digits (a..b-1), ": Time", spaces, digits,
\* ".", digits, "e", an optional sign, digits.  The pattern's language, stated
\* without the matching algorithm.
HasObservation(s) ==
    LET P == 1..(Len(s) + 1)
    IN  \E i \in P : LiteralAt(s, i, TimeStepWord) /\
        \E a \in P : SpaceRun(s, i + Len(TimeStepWord), a) /\
        \E b \in P : DigitRun(s, a, b) /\ LiteralAt(s, b, ColonTime) /\
        \E c \in P : SpaceRun(s, b + Len(ColonTime), c) /\
        \E d \in P : DigitRun(s, c, d) /\ LiteralAt(s, d, <<".">>) /\
        \E e \in P : DigitRun(s, d + 1, e) /\ LiteralAt(s, e, <<"e">>) /\
        \E f \in {e + 1, e + 2} :
            /\ f = e + 2 => LiteralAt(s, e + 1, <<"+">>) \/ LiteralAt(s, e + 1, <<"-">>)
            /\ \E g \in P : DigitRun(s, f, g)

AllAscii(txt) == \A k \in 1..Len(txt) : IsDigit(txt[k]) => IsAsciiDigit(txt[k])

\* C8 as claimed: a latest line without the TimeStep keyword yields
\* CaseError::Regex, and the line `TimeStep   42: Time   12.xe+02` (the
\* keyword, a malformed number) yields a parse error.
C8_MalformedNumberIsParseError ==
    (Updated(1) /\ Extracted(last.env)) =>
        /\ ~Contains(PipeStdout(last.env), TimeStepWord)
              => last.result = "Regex"
        /\ PipeStdout(last.env) = MalformedNumberLine \o <<"\n">>
              => last.result \in {"ParseInt", "ParseFloat"}

\* C8, amended.  update() yields CaseError::Regex exactly when the latest line
\* holds no text of the whole pattern, be it for want of the keyword or for a
\* malformed number; a parse error only for a line that holds the pattern:
\* ParseInt when the step's digits are not ASCII digits or exceed usize,
\* ParseFloat when the step parses and the time's digits are not ASCII digits.
C8_MismatchIsRegexError ==
    (Updated(1) /\ Extracted(last.env)) =>
        LET out == PipeStdout(last.env)
            g1  == Captures(out).g1
            g2  == Captures(out).g2
            step_ok == AllAscii(g1) /\ DigitsValue(g1) < UsizeModulus
        IN  /\ last.result = "Regex" <=> ~HasObservation(out)
            /\ last.result = "ParseInt" <=> HasObservation(out) /\ ~step_ok
            /\ last.result = "ParseFloat"
                  <=> HasObservation(out) /\ step_ok /\ ~AllAscii(g2)

\* the malformed number of the claim met a pattern mismatch
C8_Witness ==
    /\ Updated(1)
    /\ Extracted(last.env)
    /\ PipeStdout(last.env) = MalformedNumberLine \o <<"\n">>
    /\ last.result = "Regex"

NumCases == Len(cases)

Refresh(k, i) == log[k].ev = "refresh" /\ log[k].case = i

\* C9.  The events of the process come in cycles: the updates of cases
\* 1, 2, ..., N in that order, each once and each successful, then the render
\* of the N status lines (one per case, holding the step its update stored),
\* then the sleep; the first update of a cycle follows the sleep of the
\* previous one (or starts the process).
C9_CycleOrder ==
    \A k \in DOMAIN log :
        /\ Refresh(k, 1) => k = 1 \/ log[k - 1].ev = "sleep"
        /\ \A i \in 2..NumCases :
              Refresh(k, i) => k > 1 /\ Refresh(k - 1, i - 1) /\ log[k - 1].ok
        /\ log[k].ev = "render"
              => /\ k > 1 /\ Refresh(k - 1, NumCases) /\ log[k - 1].ok
                 /\ Len(log[k].lines) = NumCases
                 /\ \A i \in 1..NumCases :
                       /\ log[k].lines[i][1] = cases[i].name
                       /\ k = Len(log) => cases[i].step = Some(log[k].lines[i][2])
        /\ log[k].ev = "sleep" => k > 1 /\ log[k - 1].ev = "render"
        /\ log[k].ev \in {"refresh", "render", "sleep"}
        /\ log[k].ev = "refresh" => log[k].case \in 1..NumCases

\* the table of the second cycle has just been rendered
C9_Witness ==
    /\ pc = "sleep"
    /\ cycle = 2
    /\ log[Len(log)].ev = "render"
    /\ Len(log) = 2 * NumCases + 3

\* C10.  An update() that returns an error (or panics) leaves the case's
\* step, time, mean and sample count as they were before the call.
C10_ErrorLeavesCaseUnchanged ==
    \A i \in DOMAIN cases :
        Updated(i) /\ last.result # "Ok" => cases[i] = last.before

\* a case that holds an observation meets a line whose time does not parse
C10_Witness ==
    /\ Updated(1)
    /\ last.result = "ParseFloat"
    /\ cases[1].step # None
    /\ cases[1].elapsed_per_step.sample > 0

=============================================================================
